---- MODULE Spec2Model ----
(***************************************************************************)
(* texbld_manager: the package lifecycle of the TeXbld version manager.    *)
(*                                                                         *)
(* State: the pkgs table of texbld.db (the durable file, and the open      *)
(* connection's view of it, which differ while a transaction is open),     *)
(* the package directories root/store/<id>, the dispatch script            *)
(* root/bin/texbld, the wall clock that CURRENT_TIMESTAMP and datetime()   *)
(* read (one-second resolution), and the position of the one invocation    *)
(* that is running.                                                        *)
(*                                                                         *)
(* Every statement of the program that changes the database, the file      *)
(* system or the control flow is an operator from the state before it to   *)
(* the state after it.  Spec runs each invocation to its end in one step,  *)
(* the clock advancing between invocations.  SpecCrash takes switch and    *)
(* rollback one statement per step and may kill the process between any    *)
(* two.  SpecUndo adds to Spec the three invocations switch(a), switch(b), *)
(* rollback() run in a row, SpecTwice the two invocations switch(x),       *)
(* switch(x).  SpecFault takes prepare and remove one statement per step   *)
(* and lets any of them raise.  SpecRace runs two switch invocations as    *)
(* two processes.  SpecInstall adds the install command and its backends,  *)
(* SpecList the list command on a store larger than the queries' LIMIT.    *)
(***************************************************************************)
EXTENDS Integers, Sequences, FiniteSets, TLC

\* ------------------------------------------------------------------ bounds
\* identities the AUTOINCREMENT counter may hand out in a run of Spec
MaxId ==
  3
\* identities it may hand out in a run of SpecCrash
CrashMaxId ==
  2
\* identities it may hand out in a run of SpecList
ListMaxId ==
  11
\* seconds the wall clock may reach in a run
MaxClock ==
  2

\* ------------------------------------------------------- program constants
\* used_at DATETIME with no default: SQL NULL, which sorts below every
\* timestamp (last under ORDER BY ... DESC)
NULL ==
  0
\* DB.rollback's return value after Logger.error
NoIdentifier ==
  -1
STABLE_VERSIONS ==
  <<"0.3.0", "0.2.1", "0.1.2">>
\* LIMIT 10 of list_nightlies and list_stables
ListLimit ==
  10

\* identifiers the command line is given
Ids ==
  1..MaxId
\* versions prepare_stable is called with
PrepareVersions ==
  {STABLE_VERSIONS[1]}

VARIABLES
  main,         \* __name__ == "__main__": Logger.error ends the process
  clock,        \* wall clock, in seconds
  db,           \* texbld.db as committed: [rows, seq]
  conn,         \* the connection's view: db plus the open transaction
  dirs,         \* identities whose root/store/<id> directory exists
  binDir,       \* root/bin exists
  script,       \* root/bin/texbld: [exists, data, exec]
  pc,           \* position of the running invocation: "idle" between two,
                \* "done" when it has just ended
  op,           \* the invocation: its name, target and caller, the database
                \* and everCurrent it started from (pre, preEver), the
                \* invocations run just before it (before), and the
                \* statement it was killed at (killed)
  status,       \* "idle", "running", or at "done" how the invocation ended:
                \* "returned", "exit" (sys.exit), "raised" (an exception),
                \* "crashed"
  errors,       \* what the invocation reported through Logger.error or raised
  issued,       \* identities DB.add_nightly / DB.add_stable returned, in order
  everCurrent,  \* identities a committed DB.switch has made current
  files,        \* what the install backends have written: <<0, name>> is
                \* root/<name>, <<id, name>> is root/store/<id>/<name>
  peer          \* a second process running at the same time: its pc, op,
                \* conn, status and errors

vars ==
  <<main, clock, db, conn, dirs, binDir, script, pc, op, status, errors,
    issued, everCurrent, files, peer>>

\* the state as one record, for the statements to transform
State ==
  [main |-> main, clock |-> clock, db |-> db, conn |-> conn, dirs |-> dirs,
   binDir |-> binDir, script |-> script, pc |-> pc, op |-> op,
   status |-> status, errors |-> errors, issued |-> issued,
   everCurrent |-> everCurrent, files |-> files, peer |-> peer]

\* the next state is s
Becomes(s) ==
  /\ main' = s.main
  /\ clock' = s.clock
  /\ db' = s.db
  /\ conn' = s.conn
  /\ dirs' = s.dirs
  /\ binDir' = s.binDir
  /\ script' = s.script
  /\ pc' = s.pc
  /\ op' = s.op
  /\ status' = s.status
  /\ errors' = s.errors
  /\ issued' = s.issued
  /\ everCurrent' = s.everCurrent
  /\ files' = s.files
  /\ peer' = s.peer

\* ------------------------------------------------------------ the pkgs table
EmptyTable ==
  [rows |-> <<>>, seq |-> 0]

RowIds(t) ==
  DOMAIN t.rows

\* SELECT * from pkgs WHERE id=?  (truthiness of fetchone())
get_by_id(t, identifier) ==
  identifier \in RowIds(t)

MaxOf(S) ==
  IF S = {} THEN 0 ELSE CHOOSE m \in S : \A n \in S : n <= m

\* a plain INTEGER PRIMARY KEY: one more than the largest rowid in the table
NextRowidNoAutoincrement(t) ==
  MaxOf(RowIds(t)) + 1

\* id integer PRIMARY KEY AUTOINCREMENT: one more than the largest rowid the
\* table has ever held (sqlite_sequence), never less than the largest present
NextRowid(t) ==
  MaxOf(RowIds(t) \cup {t.seq}) + 1

\* used_at DATETIME DEFAULT CURRENT_TIMESTAMP
InsertRowUsedNow(t, version, now) ==
  LET id == NextRowid(t)
      row == [created_at |-> now, used_at |-> now, current |-> 0,
              version |-> version]
  IN  [rows |-> [i \in RowIds(t) \cup {id} |->
                   IF i = id THEN row ELSE t.rows[i]],
       seq |-> id]

\* INSERT INTO pkgs(version) VALUES(?): the defaults of initialize_db
InsertRow(t, version, now) ==
  LET id == NextRowid(t)
      row == [created_at |-> now, used_at |-> NULL, current |-> 0,
              version |-> version]
  IN  [rows |-> [i \in RowIds(t) \cup {id} |->
                   IF i = id THEN row ELSE t.rows[i]],
       seq |-> id]

\* DELETE FROM pkgs WHERE id=?
DeleteRow(t, identifier) ==
  [t EXCEPT !.rows = [i \in RowIds(t) \ {identifier} |-> t.rows[i]]]

\* the UPDATE left out
ClearOthersNot(t, identifier) ==
  t

\* UPDATE pkgs SET current=0 WHERE id != ?
ClearOthers(t, identifier) ==
  [t EXCEPT !.rows = [i \in RowIds(t) |->
     IF i # identifier THEN [t.rows[i] EXCEPT !.current = 0] ELSE t.rows[i]]]

\* UPDATE pkgs SET used_at=datetime() WHERE id=?
SetCurrentUsedAtOnly(t, identifier, now) ==
  [t EXCEPT !.rows = [i \in RowIds(t) |->
     IF i = identifier THEN [t.rows[i] EXCEPT !.used_at = now]
                       ELSE t.rows[i]]]

\* UPDATE pkgs SET used_at=datetime(), current=1 WHERE id=?
SetCurrent(t, identifier, now) ==
  [t EXCEPT !.rows = [i \in RowIds(t) |->
     IF i = identifier
       THEN [t.rows[i] EXCEPT !.used_at = now, !.current = 1]
       ELSE t.rows[i]]]

CurrentIds(t) ==
  {i \in RowIds(t) : t.rows[i].current = 1}

\* ORDER BY current DESC, id DESC
RollbackBeforeById(t, r, s) ==
  \/ t.rows[r].current > t.rows[s].current
  \/ t.rows[r].current = t.rows[s].current /\ r > s

\* ORDER BY current DESC, used_at DESC, id DESC: r comes before s
RollbackBefore(t, r, s) ==
  \/ t.rows[r].current > t.rows[s].current
  \/ /\ t.rows[r].current = t.rows[s].current
     /\ \/ t.rows[r].used_at > t.rows[s].used_at
        \/ t.rows[r].used_at = t.rows[s].used_at /\ r > s

\* WHERE current=0
RollbackCandidatesUnused(t) ==
  {i \in RowIds(t) : t.rows[i].current = 0}

\* WHERE used_at IS NOT NULL AND current=0
RollbackCandidates(t) ==
  {i \in RowIds(t) : t.rows[i].used_at # NULL /\ t.rows[i].current = 0}

\* the SELECT of DB.rollback: LIMIT 1 of the ordered candidates, or no row
RollbackSelect(t) ==
  LET C == RollbackCandidates(t)
  IN  IF C = {} THEN NoIdentifier
      ELSE CHOOSE r \in C : \A s \in C \ {r} : RollbackBefore(t, r, s)

\* SELECT *: the row as (id, created_at, used_at, current, version)
SelectRow(t, i) ==
  <<i, t.rows[i].created_at, t.rows[i].used_at, t.rows[i].current,
    t.rows[i].version>>

\* ORDER BY id DESC
ListBeforeById(t, r, s) ==
  r > s

\* ORDER BY used_at DESC, created_at DESC, id DESC: r comes before s
ListBefore(t, r, s) ==
  \/ t.rows[r].used_at > t.rows[s].used_at
  \/ /\ t.rows[r].used_at = t.rows[s].used_at
     /\ \/ t.rows[r].created_at > t.rows[s].created_at
        \/ t.rows[r].created_at = t.rows[s].created_at /\ r > s

\* the rows with identities in S, in that order
RECURSIVE ListOrder(_, _)
ListOrder(t, S) ==
  IF S = {} THEN <<>>
  ELSE LET first == CHOOSE r \in S : \A s \in S \ {r} : ListBefore(t, r, s)
       IN  <<SelectRow(t, first)>> \o ListOrder(t, S \ {first})

\* LIMIT n
Limit(rows, n) ==
  SubSeq(rows, 1, IF Len(rows) < n THEN Len(rows) ELSE n)

\* SELECT * FROM pkgs WHERE version='nightly' ORDER BY ... LIMIT 10
list_nightlies(t) ==
  Limit(ListOrder(t, {i \in RowIds(t) : t.rows[i].version = "nightly"}),
        ListLimit)

\* SELECT * from pkgs WHERE version != 'nightly' ORDER BY ... LIMIT 10
list_stables(t) ==
  Limit(ListOrder(t, {i \in RowIds(t) : t.rows[i].version # "nightly"}),
        ListLimit)

\* ------------------------------------------------------- the dispatch script
\* a file's text is the sequence of its parts; an empty file holds <<>>
NoFile ==
  [exists |-> FALSE, data |-> <<>>, exec |-> FALSE]

\* Store.package_path: root / "store" / str(identifier), as a text
package_path(identifier) ==
  ToString(identifier)

\* ShellScriptWriter.script(): "#!/bin/sh", then sys.executable on
\* <path>/texbld.pyz for a nightly, <path>/venv/bin/texbld for a stable
\* build, where <path> is package_path(identifier)
ScriptText(nightly, identifier) ==
  IF nightly
    THEN <<"#!/bin/sh", "sys.executable", package_path(identifier),
           "texbld.pyz">>
    ELSE <<"#!/bin/sh", package_path(identifier), "venv/bin/texbld">>

\* write(2) of text at the start of a file that holds old: what the file
\* holds beyond the end of text stays
WriteAtStart(old, text) ==
  text \o SubSeq(old, Len(text) + 1, Len(old))

\* ------------------------------------------------------------------- Init
\* what the install backends do in an invocation: urlopen(...).read()
\* returns (net), the virtualenv subprocess exits with 0 (venv), the pip
\* subprocess exits with 0 (pip)
NoBackend ==
  [net |-> TRUE, venv |-> TRUE, pip |-> TRUE]

NoOp ==
  [name |-> "none", target |-> NoIdentifier, caller |-> "none",
   version |-> "", nightly |-> FALSE, pre |-> EmptyTable, preEver |-> {},
   preScript |-> NoFile, before |-> <<>>, killed |-> "",
   backend |-> NoBackend, out |-> <<>>]

\* no second process
NoPeer ==
  [pc |-> "idle", op |-> NoOp, conn |-> EmptyTable, status |-> "idle",
   errors |-> {}]

Init ==
  /\ main \in BOOLEAN
  /\ clock = 1
  /\ db = EmptyTable
  /\ conn = EmptyTable
  /\ dirs = {}
  /\ binDir = FALSE
  /\ script = NoFile
  /\ pc = "idle"
  /\ op = NoOp
  /\ status = "idle"
  /\ errors = {}
  /\ issued = <<>>
  /\ everCurrent = {}
  /\ files = {}
  /\ peer = NoPeer

\* ------------------------------------------------------------- statements
\* an invocation starts: its record, and the database as it finds it
Start(s, name, target, version, caller, next) ==
  [s EXCEPT !.pc = next,
            !.op = [name |-> name, target |-> target, caller |-> caller,
                    version |-> version, nightly |-> FALSE, pre |-> s.db,
                    preEver |-> s.everCurrent, preScript |-> s.script,
                    before |-> <<>>, killed |-> "",
                    backend |-> NoBackend, out |-> <<>>],
            !.status = "running",
            !.errors = {}]

\* the invocation ends
Finish(s, how) ==
  [s EXCEPT !.pc = "done", !.status = how]

\* Logger.error(text): report, and sys.exit(1) when run as the program;
\* imported as a module it returns and the caller goes on at `next`
LoggerError(s, e, next) ==
  IF s.main
    THEN [s EXCEPT !.errors = @ \cup {e}, !.pc = "done", !.status = "exit"]
    ELSE [s EXCEPT !.errors = @ \cup {e}, !.pc = next]

\* an exception nobody catches ends the invocation
Raise(s, e) ==
  [s EXCEPT !.errors = @ \cup {e}, !.pc = "done", !.status = "raised"]

\* ---- Store.prepare_nightly / Store.prepare_stable, DB.add_nightly / add_stable
prepare_nightly(s) ==
  Start(s, "prepare_nightly", NoIdentifier, "nightly", "Store.prepare_nightly",
        "add_insert")

prepare_stable(s, version) ==
  Start(s, "prepare_stable", NoIdentifier, version, "Store.prepare_stable",
        "add_insert")

\* INSERT INTO pkgs(version, used_at, current) VALUES(?, datetime(), 1)
DBAddInsertCurrent(s) ==
  [s EXCEPT !.conn = SetCurrent(InsertRow(s.conn, s.op.version, s.clock),
                                NextRowid(s.conn), s.clock),
            !.op.target = NextRowid(s.conn),
            !.pc = "add_commit"]

\* cursor.execute("INSERT INTO pkgs(version) VALUES(?)"): opens a
\* transaction; cursor.lastrowid is the new row's id
DBAddInsert(s) ==
  [s EXCEPT !.conn = InsertRow(s.conn, s.op.version, s.clock),
            !.op.target = NextRowid(s.conn),
            !.pc = "add_commit"]

\* connection.commit(); return self.cursor.lastrowid or 0
DBAddCommit(s) ==
  [s EXCEPT !.db = s.conn,
            !.issued = Append(@, s.op.target),
            !.pc = "makedirs"]

\* os.makedirs(directory, exist_ok=True); return directory: to install_*
\* when that called prepare_*, else to the command line
PrepareMakedirs(s) ==
  LET made == [s EXCEPT !.dirs = @ \cup {s.op.target}]
  IN  CASE s.op.caller = "Store.install_nightly" ->
             [made EXCEPT !.pc = "in_fetch"]
        [] s.op.caller = "Store.install_stable" ->
             [made EXCEPT !.pc = "is_venv"]
        [] OTHER -> Finish(made, "returned")

\* ------------------------- Store.install_nightly, Store.install_stable
\* str.lower() of the version the command line is given
lower(version) ==
  IF version = "Nightly" THEN "nightly" ELSE version

\* root/virtualenv.pyz
virtualenv_path ==
  <<0, "virtualenv.pyz">>

install_nightly(s, backend) ==
  [Start(s, "install_nightly", NoIdentifier, "nightly",
         "Store.install_nightly", "add_insert")
     EXCEPT !.op.backend = backend]

install_stable(s, version, backend) ==
  [Start(s, "install_stable", NoIdentifier, version,
         "Store.install_stable", "is_check")
     EXCEPT !.op.backend = backend]

\* (path / "texbld.pyz").write_bytes(urllib.request.urlopen(url).read());
\* urlopen raises URLError when the download fails
InstallNightlyFetch(s) ==
  IF s.op.backend.net
    THEN Finish([s EXCEPT !.files = @ \cup {<<s.op.target, "texbld.pyz">>}],
                "returned")
    ELSE Raise(s, "TransportError")

\* if version not in STABLE_VERSIONS: Logger.error(...)
InstallStableCheck(s) ==
  IF \E i \in DOMAIN STABLE_VERSIONS : STABLE_VERSIONS[i] = s.op.version
    THEN [s EXCEPT !.pc = "is_virtualenv"]
    ELSE LoggerError(s, "InvalidVersion", "is_virtualenv")

\* install_virtualenv(): download root/virtualenv.pyz unless it exists;
\* then path = self.prepare_stable(version)
InstallVirtualenv(s) ==
  IF virtualenv_path \in s.files
    THEN [s EXCEPT !.pc = "add_insert"]
    ELSE IF s.op.backend.net
      THEN [s EXCEPT !.files = @ \cup {virtualenv_path},
                     !.pc = "add_insert"]
      ELSE Raise(s, "TransportError")

\* execute(sys.executable, self.virtualenv_path(), path / "venv")
InstallStableVenv(s) ==
  IF s.op.backend.venv
    THEN [s EXCEPT !.files = @ \cup {<<s.op.target, "venv/bin/pip">>},
                   !.pc = "is_pip"]
    ELSE LoggerError(s, "SubprocessError", "is_pip")

\* execute(path / "venv" / "bin" / "pip", "install", f"texbld=={version}"):
\* subprocess.run raises FileNotFoundError when there is no pip to run
InstallStablePip(s) ==
  IF <<s.op.target, "venv/bin/pip">> \notin s.files
    THEN Raise(s, "FileNotFoundError")
    ELSE IF s.op.backend.pip
      THEN Finish([s EXCEPT
                     !.files = @ \cup {<<s.op.target, "venv/bin/texbld">>}],
                  "returned")
      ELSE LoggerError(s, "SubprocessError", "return")

\* ------------------------ the list command: list_nightlies, list_stables
list(s) ==
  Start(s, "list", NoIdentifier, "", "Manager.list_nightlies",
        "ls_nightlies")

\* query_result = cls.store.db.list_nightlies()
ManagerListNightlies(s) ==
  [s EXCEPT !.op.out = <<list_nightlies(s.conn)>>, !.pc = "ls_stables"]

\* query_result = cls.store.db.list_stables()
ManagerListStables(s) ==
  Finish([s EXCEPT !.op.out = Append(@, list_stables(s.conn))], "returned")

\* the function returns to the command line
Return(s) ==
  Finish(s, "returned")

\* ------------------------------------------ Store.remove, DB.remove_by_id
remove(s, identifier) ==
  Start(s, "remove", identifier, "", "Store.remove", "rm_get")

\* the check left out
DBRemoveGetUnchecked(s) ==
  [s EXCEPT !.pc = "rm_delete"]

\* if not self.get_by_id(identifier): Logger.error(...)
DBRemoveGet(s) ==
  IF get_by_id(s.conn, s.op.target)
    THEN [s EXCEPT !.pc = "rm_delete"]
    ELSE LoggerError(s, "NotFound", "rm_delete")

\* cursor.execute("DELETE FROM pkgs WHERE id=?")
DBRemoveDelete(s) ==
  [s EXCEPT !.conn = DeleteRow(s.conn, s.op.target), !.pc = "rm_commit"]

\* connection.commit()
DBRemoveCommit(s) ==
  [s EXCEPT !.db = s.conn, !.pc = "rmtree"]

\* shutil.rmtree(self.package_path(identifier))
StoreRmtree(s) ==
  IF s.op.target \in s.dirs
    THEN Finish([s EXCEPT !.dirs = @ \ {s.op.target},
                          !.files = {f \in @ : f[1] # s.op.target}],
                "returned")
    ELSE Raise(s, "FileNotFoundError")

\* ------------------- Store.switch, Store.rollback, DB.switch, DB.rollback
switch(s, identifier) ==
  Start(s, "switch", identifier, "", "Store.switch", "st_check")

rollback(s) ==
  Start(s, "rollback", NoIdentifier, "", "DB.rollback", "rb_select")

\* DB.rollback: the SELECT; a row goes to self.switch(identifier), no row to
\* Logger.error and, when that returns, `return -1` to Store.rollback, which
\* calls self.switch(-1)
DBRollbackSelect(s) ==
  LET identifier == RollbackSelect(s.conn)
  IN  IF identifier # NoIdentifier
        THEN [s EXCEPT !.op.target = identifier, !.pc = "sw_get"]
        ELSE LoggerError([s EXCEPT !.op.target = NoIdentifier,
                                   !.op.caller = "Store.switch"],
                         "NothingToRollback", "st_check")

\* the script written before self.db.switch(identifier)
StoreSwitchCheckScriptFirst(s) ==
  IF s.op.target \in s.dirs
    THEN [s EXCEPT !.pc = "writer"]
    ELSE LoggerError(s, "InvalidDirectory", "writer")

\* Store.switch: if not self.valid_package_identifier(identifier):
\*                   self.invalid_identifier(identifier)
\* and then self.db.switch(identifier)
StoreSwitchCheck(s) ==
  IF s.op.target \in s.dirs
    THEN [s EXCEPT !.pc = "sw_get"]
    ELSE LoggerError(s, "InvalidDirectory", "sw_get")

\* Store.rollback without its self.switch(identifier)
DBSwitchReturnToCommandLine(s) ==
  IF s.op.caller = "DB.rollback"
    THEN Finish(s, "returned")
    ELSE [s EXCEPT !.pc = "writer", !.op.caller = "Store.switch"]

\* where DB.switch returns to: DB.rollback returns the identifier to
\* Store.rollback, which calls Store.switch; Store.switch goes on to the
\* ShellScriptWriter
DBSwitchReturn(s) ==
  [s EXCEPT !.pc = IF s.op.caller = "DB.rollback" THEN "st_check"
                                                   ELSE "writer",
            !.op.caller = "Store.switch"]

\* DB.switch: if not self.get_by_id(identifier): Logger.error(...) else: ...
DBSwitchGet(s) ==
  IF get_by_id(s.conn, s.op.target)
    THEN [s EXCEPT !.pc = "sw_clear"]
    ELSE LoggerError([s EXCEPT !.op.caller = DBSwitchReturn(s).op.caller],
                     "NotFound", DBSwitchReturn(s).pc)

\* the UPDATE on a connection in autocommit mode: committed at once
DBSwitchClearAutocommit(s) ==
  [s EXCEPT !.conn = ClearOthers(s.conn, s.op.target),
            !.db = ClearOthers(s.conn, s.op.target),
            !.pc = "sw_set"]

\* UPDATE pkgs SET current=0 WHERE id != ?   (opens the transaction)
DBSwitchClear(s) ==
  [s EXCEPT !.conn = ClearOthers(s.conn, s.op.target), !.pc = "sw_set"]

\* UPDATE pkgs SET used_at=datetime(), current=1-current WHERE id=?
DBSwitchSetToggle(s) ==
  [s EXCEPT !.conn = [s.conn EXCEPT !.rows[s.op.target] =
                        [@ EXCEPT !.used_at = s.clock, !.current = 1 - @]],
            !.pc = "sw_commit"]

\* UPDATE pkgs SET used_at=datetime(), current=1 WHERE id=?
DBSwitchSet(s) ==
  [s EXCEPT !.conn = SetCurrent(s.conn, s.op.target, s.clock),
            !.pc = "sw_commit"]

\* connection.commit(), and the return to the caller
DBSwitchCommit(s) ==
  DBSwitchReturn([s EXCEPT !.db = s.conn,
                           !.everCurrent = @ \cup {s.op.target}])

\* ------------------------------------------------------- ShellScriptWriter
\* __init__: _, _, _, _, version = store.db.get_by_id(identifier)
\* (unpacking None raises TypeError); self.nightly = (version == 'nightly')
WriterInit(s) ==
  IF get_by_id(s.conn, s.op.target)
    THEN [s EXCEPT
            !.op.nightly = (s.conn.rows[s.op.target].version = "nightly"),
            !.pc = "ws_makedirs"]
    ELSE Raise(s, "TypeError")

\* os.makedirs(path.parent, exist_ok=True)
WriteMakedirs(s) ==
  [s EXCEPT !.binDir = TRUE, !.pc = "ws_open"]

\* open(path, "w"): creates the file, or truncates it and keeps its mode
WriteOpen(s) ==
  [s EXCEPT !.script = [exists |-> TRUE, data |-> <<>>,
                        exec |-> s.script.exec],
            !.pc = "ws_write"]

\* w.write(self.script()) and the close that flushes it: one write(2) at
\* the offset of this open(), which is 0
WriteText(s) ==
  [s EXCEPT !.script.data =
              WriteAtStart(s.script.data,
                           ScriptText(s.op.nightly, s.op.target)),
            !.pc = "ws_chmod"]

\* path.chmod(path.stat().st_mode | stat.S_IEXEC); Store.switch returns
WriteChmod(s) ==
  Finish([s EXCEPT !.script.exec = TRUE], "returned")

\* the statement the invocation is at
Step(s) ==
  CASE s.pc = "add_insert"  -> DBAddInsert(s)
    [] s.pc = "add_commit"  -> DBAddCommit(s)
    [] s.pc = "makedirs"    -> PrepareMakedirs(s)
    [] s.pc = "rm_get"      -> DBRemoveGet(s)
    [] s.pc = "rm_delete"   -> DBRemoveDelete(s)
    [] s.pc = "rm_commit"   -> DBRemoveCommit(s)
    [] s.pc = "rmtree"      -> StoreRmtree(s)
    [] s.pc = "rb_select"   -> DBRollbackSelect(s)
    [] s.pc = "st_check"    -> StoreSwitchCheck(s)
    [] s.pc = "sw_get"      -> DBSwitchGet(s)
    [] s.pc = "sw_clear"    -> DBSwitchClear(s)
    [] s.pc = "sw_set"      -> DBSwitchSet(s)
    [] s.pc = "sw_commit"   -> DBSwitchCommit(s)
    [] s.pc = "writer"      -> WriterInit(s)
    [] s.pc = "ws_makedirs" -> WriteMakedirs(s)
    [] s.pc = "ws_open"     -> WriteOpen(s)
    [] s.pc = "ws_write"    -> WriteText(s)
    [] s.pc = "ws_chmod"    -> WriteChmod(s)
    [] s.pc = "in_fetch"    -> InstallNightlyFetch(s)
    [] s.pc = "is_check"    -> InstallStableCheck(s)
    [] s.pc = "is_virtualenv" -> InstallVirtualenv(s)
    [] s.pc = "is_venv"     -> InstallStableVenv(s)
    [] s.pc = "is_pip"      -> InstallStablePip(s)
    [] s.pc = "return"      -> Return(s)
    [] s.pc = "ls_nightlies" -> ManagerListNightlies(s)
    [] s.pc = "ls_stables"  -> ManagerListStables(s)

\* the invocation run to its end
RECURSIVE Run(_)
Run(s) ==
  IF s.pc = "done" THEN s ELSE Run(Step(s))

\* the process is gone; the next invocation starts from the command line
Exit(s) ==
  [s EXCEPT !.pc = "idle", !.op = NoOp, !.status = "idle", !.errors = {}]

\* the process is killed: the open transaction is rolled back when the
\* database is next opened, the file system stays as it is
Kill(s) ==
  [s EXCEPT !.conn = s.db, !.pc = "done", !.status = "crashed",
            !.op.killed = s.pc]

\* ---------------------------------------------------------------- actions
\* the wall clock advances by a second
Tick ==
  /\ clock < MaxClock
  /\ Becomes([State EXCEPT !.clock = @ + 1])

Done ==
  /\ pc = "done"
  /\ Becomes(Exit(State))

\* an invocation, from the command line to its end
PrepareNightly ==
  /\ pc = "idle"
  /\ NextRowid(conn) <= MaxId
  /\ Becomes(Run(prepare_nightly(State)))

PrepareStable(version) ==
  /\ pc = "idle"
  /\ NextRowid(conn) <= MaxId
  /\ Becomes(Run(prepare_stable(State, version)))

Remove(identifier) ==
  /\ pc = "idle"
  /\ Becomes(Run(remove(State, identifier)))

Switch(identifier) ==
  /\ pc = "idle"
  /\ Becomes(Run(switch(State, identifier)))

Rollback ==
  /\ pc = "idle"
  /\ Becomes(Run(rollback(State)))

Next ==
  \/ Tick
  \/ PrepareNightly
  \/ \E version \in PrepareVersions : PrepareStable(version)
  \/ \E identifier \in Ids : Remove(identifier)
  \/ \E identifier \in Ids : Switch(identifier)
  \/ Rollback
  \/ Done

\* invocations that run to their end, one after the other
Spec ==
  Init /\ [][Next]_vars

\* ------------------------- switch and rollback, one statement at a time
\* identifiers the command line is given in a run of SpecCrash
CrashIds ==
  1..CrashMaxId

CrashPrepareNightly ==
  /\ pc = "idle"
  /\ NextRowid(conn) <= CrashMaxId
  /\ Becomes(Run(prepare_nightly(State)))

CrashPrepareStable(version) ==
  /\ pc = "idle"
  /\ NextRowid(conn) <= CrashMaxId
  /\ Becomes(Run(prepare_stable(State, version)))

BeginSwitch(identifier) ==
  /\ pc = "idle"
  /\ Becomes(switch(State, identifier))

BeginRollback ==
  /\ pc = "idle"
  /\ Becomes(rollback(State))

\* the invocation executes the statement it is at
Statement(label) ==
  /\ pc = label
  /\ Becomes(Step(State))

\* the process is killed before the statement it is at
Crash ==
  /\ pc \notin {"idle", "done"}
  /\ Becomes(Kill(State))

NextCrash ==
  \/ CrashPrepareNightly
  \/ \E version \in PrepareVersions : CrashPrepareStable(version)
  \/ \E identifier \in CrashIds : Remove(identifier)
  \/ \E identifier \in CrashIds : BeginSwitch(identifier)
  \/ BeginRollback
  \/ Statement("rb_select")
  \/ Statement("st_check")
  \/ Statement("sw_get")
  \/ Statement("sw_clear")
  \/ Statement("sw_set")
  \/ Statement("sw_commit")
  \/ Statement("writer")
  \/ Statement("ws_makedirs")
  \/ Statement("ws_open")
  \/ Statement("ws_write")
  \/ Statement("ws_chmod")
  \/ Crash
  \/ Done

\* prepare and remove run to their end; switch and rollback take one
\* statement per step and may be killed between any two.  The invocations
\* of a run happen within one second of the wall clock.
SpecCrash ==
  Init /\ [][NextCrash]_vars

\* ------------------------------------ switch(a); switch(b); rollback()
\* the wall clock d seconds later
Later(s, d) ==
  [s EXCEPT !.clock = @ + d]

\* three invocations one after the other, the second d1 seconds after the
\* first and the third d2 seconds after the second; the rollback's record
\* names the two switches before it.  Taken when both switches return.
SwitchSwitchRollback(a, b, d1, d2) ==
  /\ pc = "idle"
  /\ clock + d1 + d2 <= MaxClock
  /\ LET s1 == Run(switch(State, a))
         s2 == Run(switch(Later(Exit(s1), d1), b))
         s3 == Run(rollback(Later(Exit(s2), d2)))
     IN  /\ s1.status = "returned" /\ s1.errors = {}
         /\ s2.status = "returned" /\ s2.errors = {}
         /\ Becomes([s3 EXCEPT !.op.before = <<a, b>>])

NextUndo ==
  \/ Next
  \/ \E a, b \in Ids, d1, d2 \in 0..(MaxClock - 1) :
       SwitchSwitchRollback(a, b, d1, d2)

\* the invocations of Spec, and the three in a row
SpecUndo ==
  Init /\ [][NextUndo]_vars

\* ------------------------------------------------ switch(x); switch(x)
\* two invocations one after the other, the second d seconds after the
\* first; the second's record names the one before it
SwitchSwitch(x, d) ==
  /\ pc = "idle"
  /\ clock + d <= MaxClock
  /\ LET s1 == Run(switch(State, x))
         s2 == Run(switch(Later(Exit(s1), d), x))
     IN  Becomes([s2 EXCEPT !.op.before = <<x>>])

NextTwice ==
  \/ Next
  \/ \E x \in Ids, d \in 0..(MaxClock - 1) : SwitchSwitch(x, d)

\* the invocations of Spec, and switch(x) twice in a row
SpecTwice ==
  Init /\ [][NextTwice]_vars

\* --------------------------------------------------- install <version>
\* versions the command line is given
InstallVersions ==
  {"nightly", "Nightly", STABLE_VERSIONS[1], "0.0.0"}

\* what the downloads and the subprocesses of an invocation do
Backends ==
  [net : BOOLEAN, venv : BOOLEAN, pip : BOOLEAN]

\* Manager.install: install_nightly for "nightly" in any case, else
\* install_stable(version)
Install(version, backend) ==
  /\ pc = "idle"
  /\ NextRowid(conn) <= CrashMaxId
  /\ Becomes(Run(IF lower(version) = "nightly"
                   THEN install_nightly(State, backend)
                   ELSE install_stable(State, version, backend)))

NextInstall ==
  \/ Tick
  \/ \E version \in InstallVersions, backend \in Backends :
       Install(version, backend)
  \/ CrashPrepareNightly
  \/ \E version \in PrepareVersions : CrashPrepareStable(version)
  \/ \E identifier \in CrashIds : Remove(identifier)
  \/ \E identifier \in CrashIds : Switch(identifier)
  \/ Rollback
  \/ Done

\* the invocations of Spec and install, each run to its end
SpecInstall ==
  Init /\ [][NextInstall]_vars

\* ---------------------------------------------------------------- list
ListPrepareNightly ==
  /\ pc = "idle"
  /\ NextRowid(conn) <= ListMaxId
  /\ Becomes(Run(prepare_nightly(State)))

ListPrepareStable(version) ==
  /\ pc = "idle"
  /\ NextRowid(conn) <= ListMaxId
  /\ Becomes(Run(prepare_stable(State, version)))

\* the list command
List ==
  /\ pc = "idle"
  /\ Becomes(Run(list(State)))

NextList ==
  \/ ListPrepareNightly
  \/ \E version \in PrepareVersions : ListPrepareStable(version)
  \/ \E identifier \in CrashIds : Switch(identifier)
  \/ List
  \/ Done

\* prepare, switch and list, each run to its end, on a store that grows
\* beyond the LIMIT of the list queries.  The invocations of a run happen
\* within one second of the wall clock.
SpecList ==
  Init /\ [][NextList]_vars

\* ------------------------------------ switch(a) and switch(b) at once
\* what is a process's own: its position, its invocation, its connection
Process(s) ==
  [pc |-> s.pc, op |-> s.op, conn |-> s.conn, status |-> s.status,
   errors |-> s.errors]

\* the two processes change places
Swap(s) ==
  [s EXCEPT !.pc = s.peer.pc, !.op = s.peer.op, !.conn = s.peer.conn,
            !.status = s.peer.status, !.errors = s.peer.errors,
            !.peer = Process(s)]

\* the other process is inside its transaction and holds sqlite's write
\* lock on texbld.db
WriteLocked(s) ==
  s.peer.pc \in {"sw_set", "sw_commit"}

\* a statement of one of two processes.  The UPDATE that opens the
\* transaction waits for the write lock and raises sqlite3.OperationalError
\* (database is locked) when the wait times out; a commit shows to the other
\* process, which has no transaction open then.
RaceStep(s) ==
  IF s.pc = "sw_clear" /\ WriteLocked(s)
    THEN Raise(s, "OperationalError")
    ELSE LET t == Step(s)
         IN  IF t.db # s.db THEN [t EXCEPT !.peer.conn = t.db] ELSE t

\* two processes start, one for switch(a) and one for switch(b)
BeginRace(a, b) ==
  /\ pc = "idle"
  /\ a # b
  /\ Becomes([switch(State, a) EXCEPT !.peer = Process(switch(State, b))])

RaceStatement ==
  /\ pc \notin {"idle", "done"}
  /\ peer.pc # "idle"
  /\ Becomes(RaceStep(State))

PeerStatement ==
  /\ peer.pc \notin {"idle", "done"}
  /\ Becomes(Swap(RaceStep(Swap(State))))

\* every process that was running has ended
RaceDone ==
  /\ pc = "done"
  /\ peer.pc \in {"idle", "done"}
  /\ Becomes([Exit(State) EXCEPT !.peer = NoPeer])

NextRace ==
  \/ CrashPrepareNightly
  \/ \E version \in PrepareVersions : CrashPrepareStable(version)
  \/ \E a, b \in CrashIds : BeginRace(a, b)
  \/ RaceStatement
  \/ PeerStatement
  \/ RaceDone

\* prepare runs to its end; two switch invocations run as two processes,
\* their statements interleaved in every order.  The invocations of a run
\* happen within one second of the wall clock.
SpecRace ==
  Init /\ [][NextRace]_vars

\* ------------------------- prepare and remove, one statement at a time
\* the statements of prepare and remove that touch the database
StorageStatements ==
  {"add_insert", "add_commit", "rm_get", "rm_delete", "rm_commit"}

\* the statements of prepare and remove that touch the file system
FilesystemStatements ==
  {"makedirs", "rmtree"}

\* the statement the invocation is at raises: sqlite3.Error from execute or
\* commit, OSError from os.makedirs or shutil.rmtree.  Nobody catches it, the
\* invocation ends there and its open transaction is rolled back.
Fail(s) ==
  [Raise(s, IF s.pc \in FilesystemStatements THEN "FilesystemError"
                                              ELSE "StorageError")
     EXCEPT !.conn = s.db, !.op.killed = s.pc]

BeginPrepareNightly ==
  /\ pc = "idle"
  /\ NextRowid(conn) <= CrashMaxId
  /\ Becomes(prepare_nightly(State))

BeginPrepareStable(version) ==
  /\ pc = "idle"
  /\ NextRowid(conn) <= CrashMaxId
  /\ Becomes(prepare_stable(State, version))

BeginRemove(identifier) ==
  /\ pc = "idle"
  /\ Becomes(remove(State, identifier))

\* the statement the invocation is at fails
Fault ==
  /\ pc \in StorageStatements \cup FilesystemStatements
  /\ Becomes(Fail(State))

NextFault ==
  \/ BeginPrepareNightly
  \/ \E version \in PrepareVersions : BeginPrepareStable(version)
  \/ \E identifier \in CrashIds : BeginRemove(identifier)
  \/ Statement("add_insert")
  \/ Statement("add_commit")
  \/ Statement("makedirs")
  \/ Statement("rm_get")
  \/ Statement("rm_delete")
  \/ Statement("rm_commit")
  \/ Statement("rmtree")
  \/ Fault
  \/ \E identifier \in CrashIds : Switch(identifier)
  \/ Rollback
  \/ Done

\* prepare and remove take one statement per step and any of their
\* statements may fail; switch and rollback, which touch neither the set of
\* rows nor the package directories, run to their end.  The invocations of
\* a run happen within one second of the wall clock.
SpecFault ==
  Init /\ [][NextFault]_vars

\* ================================================================ claims
\* an invocation of `name` has just ended
Ended(name) ==
  pc = "done" /\ op.name = name

\* the invocation reported e
Reported(e) ==
  e \in errors

\* the invocation returned and reported nothing
Succeeded ==
  status = "returned" /\ errors = {}

\* C1: in every state the invocations of prepare, switch, rollback and
\* remove reach, at most one record of the pkgs table has current = 1.
AtMostOneCurrent ==
  /\ Cardinality(CurrentIds(db)) <= 1
  /\ Cardinality(CurrentIds(conn)) <= 1

\* C1's case: a switch from the current record to another one has ended
SwitchedAwayFromCurrent ==
  /\ Ended("switch")
  /\ CurrentIds(op.pre) # {}
  /\ CurrentIds(op.pre) # {op.target}
  /\ CurrentIds(db) = {op.target}

\* C2: after switch(x) on a store that holds record x, the switch has
\* returned, x has current = 1 and every other record has current = 0.
SwitchMakesCurrent ==
  Ended("switch") /\ op.target \in RowIds(op.pre)
    => /\ Succeeded
       /\ op.target \in RowIds(db)
       /\ db.rows[op.target].current = 1
       /\ \A i \in RowIds(db) \ {op.target} : db.rows[i].current = 0

\* C2's case: switch(x) has ended on a store that held x and two other
\* records, one of them current
SwitchAmongThree ==
  /\ Ended("switch")
  /\ op.target \in RowIds(op.pre)
  /\ Cardinality(RowIds(op.pre)) = 3
  /\ CurrentIds(op.pre) \notin {{}, {op.target}}

\* the build the script invokes: its text is the script of record i
Invokes(i) ==
  /\ i \in RowIds(db)
  /\ script.data = ScriptText(db.rows[i].version = "nightly", i)

\* C3: between invocations, if the dispatch script exists, the build it
\* invokes is the record that has current = 1.
ScriptInvokesCurrent ==
  pc = "idle" /\ script.exists => \E i \in CurrentIds(db) : Invokes(i)

\* C4 (as stated): rollback() fails with NothingToRollback exactly when
\* fewer than two distinct records have ever been made current.
RollbackFailsIffFewerThanTwoEverCurrent ==
  Ended("rollback")
    => (Reported("NothingToRollback") <=> Cardinality(op.preEver) < 2)

\* the records of table t, other than the current one, that have been made
\* current
FormerlyCurrent(t, ever) ==
  {i \in RowIds(t) \cap ever : t.rows[i].current = 0}

\* C4 (amended): rollback() fails with NothingToRollback exactly when no
\* existing record other than the current one has ever been made current;
\* so it fails on a fresh store, and it succeeds whenever at least two
\* records that still exist have been made current.
RollbackFailsIffNoFormerlyCurrent ==
  Ended("rollback")
    => /\ Reported("NothingToRollback")
            <=> FormerlyCurrent(op.pre, op.preEver) = {}
       /\ ~Reported("NothingToRollback") => Succeeded
       /\ RowIds(op.pre) = {} => Reported("NothingToRollback")
       /\ Cardinality(RowIds(op.pre) \cap op.preEver) >= 2 => Succeeded

\* C4's case: rollback() has failed although two distinct records had been
\* made current (one of them has been removed since)
RollbackFailedAfterTwoCurrent ==
  /\ Ended("rollback")
  /\ Reported("NothingToRollback")
  /\ Cardinality(op.preEver) >= 2

\* C5: when rollback() succeeds, the record it returns and makes current
\* was, at the call, a record that was not current and had been switched
\* to, with the greatest used_at among the records not current (ties
\* broken by the greatest identity); a never-used record is never selected.
RollbackPicksMostRecentlyUsed ==
  Ended("rollback") /\ ~Reported("NothingToRollback")
    => /\ Succeeded
       /\ op.target \in RowIds(op.pre)
       /\ op.pre.rows[op.target].current = 0
       /\ op.pre.rows[op.target].used_at # NULL
       /\ op.target \in op.preEver
       /\ \A r \in RowIds(op.pre) \ {op.target} :
            op.pre.rows[r].current = 0
              => \/ op.pre.rows[r].used_at < op.pre.rows[op.target].used_at
                 \/ /\ op.pre.rows[r].used_at = op.pre.rows[op.target].used_at
                    /\ r < op.target
       /\ CurrentIds(db) = {op.target}

\* C5's case: rollback() has chosen between two used records that were not
\* current, and the one it chose has the smaller identity and the later
\* used_at
RollbackChoseByUsedAt ==
  /\ Ended("rollback")
  /\ Succeeded
  /\ \E r \in RowIds(op.pre) \ {op.target} :
       /\ op.pre.rows[r].current = 0
       /\ op.pre.rows[r].used_at # NULL
       /\ op.pre.rows[r].used_at < op.pre.rows[op.target].used_at
       /\ r > op.target

\* C6: for two distinct existing identities a and b, switch(a); switch(b);
\* rollback() returns a and leaves a the only current record, whatever
\* records were used before and whenever the switches happen.
RollbackUndoesLastSwitch ==
  (Ended("rollback") /\ Len(op.before) = 2 /\ op.before[1] # op.before[2])
    => /\ Succeeded
       /\ op.target = op.before[1]
       /\ CurrentIds(db) = {op.before[1]}

\* C7: every identity prepare returns is greater than every identity it
\* returned before, whatever was removed in between.
IdentitiesIncrease ==
  \A i, j \in 1..Len(issued) : i < j => issued[i] < issued[j]

\* C7's case: a prepare has ended on a store from which the record with
\* the highest identity issued so far had been removed
PreparedAfterHighestRemoved ==
  /\ pc = "done"
  /\ op.name \in {"prepare_nightly", "prepare_stable"}
  /\ Len(issued) >= 2
  /\ issued[Len(issued) - 1] \notin RowIds(op.pre)
  /\ issued[Len(issued)] = op.target

\* C8: within switch(x) the dispatch script is touched only once the store
\* has committed x as the only current record, and only to hold x's script;
\* a kill between the commit and the rewrite leaves the script as it was
\* and the store with x the only current record.
StoreBeforeScript ==
  [][/\ (script' # script)
        => (/\ db' = db
            /\ CurrentIds(db) = {op.target}
            /\ script'.data \in {<<>>, ScriptText(op.nightly, op.target)})
     /\ (/\ pc \in {"writer", "ws_makedirs", "ws_open"}
         /\ status' = "crashed"
         /\ op.target \in RowIds(db))
        => (script' = script /\ CurrentIds(db') = {op.target})]_vars

\* C8's case: a switch to x was killed after the commit and before the
\* rewrite: x is current, the complete script of another build is in place
KilledBetweenStoreAndScript ==
  /\ Ended("switch")
  /\ status = "crashed"
  /\ op.killed \in {"writer", "ws_makedirs", "ws_open"}
  /\ CurrentIds(db) = {op.target}
  /\ script.exists /\ script.data # <<>>
  /\ ~Invokes(op.target)

\* table after is table before with DB.switch(x) applied in full
Switched(before, after, x) ==
  /\ x \in RowIds(before)
  /\ RowIds(after) = RowIds(before)
  /\ after.seq = before.seq
  /\ after.rows[x].current = 1
  /\ after.rows[x].used_at # NULL
  /\ after.rows[x].created_at = before.rows[x].created_at
  /\ after.rows[x].version = before.rows[x].version
  /\ \A i \in RowIds(before) \ {x} :
       after.rows[i] = [before.rows[i] EXCEPT !.current = 0]

\* C9: at every statement of a switch or rollback, and after a kill at any
\* of them, the committed store is the store the invocation started from or
\* that store with the switch applied in full; a killed invocation leaves
\* the connection's view equal to the committed store.
SwitchIsAtomic ==
  op.name \in {"switch", "rollback"}
    => /\ db = op.pre \/ Switched(op.pre, db, op.target)
       /\ Cardinality(CurrentIds(db)) <= 1
       /\ status = "crashed" => conn = db

\* C9's case: a switch away from the current record was killed between its
\* two UPDATEs
KilledBetweenUpdates ==
  /\ Ended("switch")
  /\ status = "crashed"
  /\ op.killed = "sw_set"
  /\ CurrentIds(op.pre) \notin {{}, {op.target}}

\* C10: whoever reads root/bin/texbld, at any statement of write_script or
\* after a kill, finds a complete script (the previous or the new one) that
\* is executable, never an empty or truncated file.
ScriptIsAlwaysComplete ==
  script.exists => script.data # <<>> /\ script.exec

\* C11: between invocations of prepare, switch, rollback and remove, each
\* of which completes or fails at one of its statements, a record exists in
\* the pkgs table exactly when its directory root/store/<id> exists.
RecordIffDirectory ==
  pc = "idle" => RowIds(db) = dirs

\* C12: remove(identity) for an identity that has no record reports
\* NotFound and does not return normally, and the pkgs table is as before
\* the call: the same rows, and the same fields in every row.
RemoveAbsentLeavesStore ==
  Ended("remove") /\ op.target \notin RowIds(op.pre)
    => /\ Reported("NotFound")
       /\ ~Succeeded
       /\ db = op.pre
       /\ conn = op.pre
       /\ RowIds(db) = RowIds(op.pre)
       /\ \A i \in RowIds(op.pre) :
            /\ db.rows[i].current = op.pre.rows[i].current
            /\ db.rows[i].used_at = op.pre.rows[i].used_at
            /\ db.rows[i].created_at = op.pre.rows[i].created_at
            /\ db.rows[i].version = op.pre.rows[i].version

\* C12's case: remove of an identity without a record has ended, imported
\* as a module (where Logger.error returns and the DELETE and the commit
\* run), on a store that holds a current record
RemovedAbsentIdentity ==
  /\ Ended("remove")
  /\ ~main
  /\ op.target \notin RowIds(op.pre)
  /\ CurrentIds(op.pre) # {}

\* C13: switch(identity) on a record whose directory root/store/<id> is
\* missing reports the directory and goes on: it returns with the record
\* the only current one and the dispatch script rewritten to invoke it.
SwitchProceedsWithoutDirectory ==
  Ended("switch") /\ op.target \in RowIds(op.pre) /\ op.target \notin dirs
    => /\ Reported("InvalidDirectory")
       /\ status = "returned"
       /\ CurrentIds(db) = {op.target}
       /\ script.exists /\ script.exec
       /\ Invokes(op.target)

\* C14: for an existing x, switch(x); switch(x) leaves after the second
\* call the current flag of every record and the dispatch script as they
\* were after the first; nothing but x's used_at differs, and that is not
\* older than it was.
SwitchTwiceIsSwitchOnce ==
  (Ended("switch") /\ op.before = <<op.target>>
                   /\ op.target \in RowIds(op.pre))
    => /\ Succeeded
       /\ op.pre.rows[op.target].current = 1
       /\ RowIds(db) = RowIds(op.pre)
       /\ \A i \in RowIds(db) : db.rows[i].current = op.pre.rows[i].current
       /\ script = op.preScript
       /\ \A i \in RowIds(db) \ {op.target} : db.rows[i] = op.pre.rows[i]
       /\ db.rows[op.target].created_at = op.pre.rows[op.target].created_at
       /\ db.rows[op.target].version = op.pre.rows[op.target].version
       /\ db.rows[op.target].used_at >= op.pre.rows[op.target].used_at
       /\ op.pre.rows[op.target].used_at # NULL

\* C14's case: the second switch(x) has ended a second after the first, on
\* a store where another record was current before the two
SwitchedTwiceASecondApart ==
  /\ Ended("switch")
  /\ op.before = <<op.target>>
  /\ op.target \in RowIds(op.pre)
  /\ db.rows[op.target].used_at > op.pre.rows[op.target].used_at
  /\ \E i \in RowIds(db) \ {op.target} : db.rows[i].used_at # NULL

\* C15: a record's used_at is NULL exactly when no successful switch or
\* rollback has had it as its target (everCurrent grows by the target of
\* each successful switch or rollback and by nothing else); so a current
\* record has used_at set; and a switch or rollback, also one to the record
\* that is current already, leaves its target with a used_at that no other
\* record's used_at exceeds.
UsedAtIffSwitchedTo ==
  /\ \A i \in RowIds(db) : db.rows[i].used_at = NULL <=> i \notin everCurrent
  /\ \A i \in CurrentIds(db) : db.rows[i].used_at # NULL
  /\ pc = "done"
       => everCurrent =
            IF op.name \in {"switch", "rollback"} /\ Succeeded
              THEN op.preEver \cup {op.target}
              ELSE op.preEver
  /\ pc = "done" /\ op.name \in {"switch", "rollback"} /\ Succeeded
       => /\ db.rows[op.target].used_at # NULL
          /\ db.rows[op.target].used_at >= op.pre.rows[op.target].used_at
          /\ \A j \in RowIds(db) :
               db.rows[j].used_at <= db.rows[op.target].used_at

\* C15's case: a switch to the record that was current already has ended,
\* a second after that record was last switched to, on a store that holds
\* another used record and a record never switched to
SwitchedAgainToCurrent ==
  /\ Ended("switch")
  /\ Succeeded
  /\ CurrentIds(op.pre) = {op.target}
  /\ db.rows[op.target].used_at > op.pre.rows[op.target].used_at
  /\ \E i, j \in RowIds(db) \ {op.target} :
       db.rows[i].used_at = NULL /\ db.rows[j].used_at # NULL

\* C16: when switch(a) and switch(b), a # b, run as two processes and both
\* return, the store has at most one current record and the dispatch script
\* is the complete, executable script of a or of b.
RaceLeavesOneCompleteScript ==
  (/\ pc = "done" /\ status = "returned" /\ errors = {}
   /\ peer.pc = "done" /\ peer.status = "returned" /\ peer.errors = {})
    => /\ Cardinality(CurrentIds(db)) <= 1
       /\ script.exists /\ script.exec
       /\ Invokes(op.target) \/ Invokes(peer.op.target)

\* C17: install of a stable version that is not in STABLE_VERSIONS
\* reports InvalidVersion and ends the invocation there: no identity is
\* allocated, no record inserted, no package directory created, and the
\* current flags and the dispatch script are as before.
InvalidVersionAllocatesNothing ==
  (Ended("install_stable")
     /\ \A i \in DOMAIN STABLE_VERSIONS : STABLE_VERSIONS[i] # op.version)
    => /\ Reported("InvalidVersion")
       /\ status = "exit"
       /\ op.target = NoIdentifier
       /\ db = op.pre
       /\ dirs \subseteq RowIds(op.pre)
       /\ script = op.preScript

\* C20: prepare and install, nightly or stable, whatever the backend does,
\* leave current and used_at of every record that existed, and the
\* dispatch script, as they were; a record they insert has current = 0 and
\* used_at NULL.
PrepareAndInstallKeepCurrent ==
  (pc = "done" /\ op.name \in {"prepare_nightly", "prepare_stable",
                                "install_nightly", "install_stable"})
    => /\ \A i \in RowIds(op.pre) :
            /\ i \in RowIds(db)
            /\ db.rows[i].current = op.pre.rows[i].current
            /\ db.rows[i].used_at = op.pre.rows[i].used_at
       /\ \A i \in RowIds(db) \ RowIds(op.pre) :
            /\ i = op.target
            /\ db.rows[i].current = 0
            /\ db.rows[i].used_at = NULL
       /\ CurrentIds(db) = CurrentIds(op.pre)
       /\ everCurrent = op.preEver
       /\ script = op.preScript

\* C20's case: an install of a stable version whose pip subprocess failed
\* has ended, having inserted a record into a store with a current record
\* and its dispatch script
InstalledBesideCurrent ==
  /\ Ended("install_stable")
  /\ Reported("SubprocessError")
  /\ op.target \in RowIds(db) \ RowIds(op.pre)
  /\ CurrentIds(op.pre) # {}
  /\ script.exists

\* C19: rollback() ends as switch(t) would have ended from the same state,
\* t being the identity DB.rollback selected: the same pkgs table (so the
\* same current flags), the same dispatch script, the same outcome; and
\* when it reports NothingToRollback it leaves the table and the script as
\* they were.
RollbackIsSwitchToSelected ==
  [][(pc = "idle" /\ pc' = "done" /\ op'.name = "rollback")
       => IF "NothingToRollback" \in errors'
            THEN /\ RollbackSelect(db) = NoIdentifier
                 /\ db' = db
                 /\ script' = script
            ELSE /\ op'.target = RollbackSelect(db)
                 /\ db' = Run(switch(State, op'.target)).db
                 /\ CurrentIds(db') = {op'.target}
                 /\ script' = Run(switch(State, op'.target)).script
                 /\ status' = Run(switch(State, op'.target)).status
                 /\ errors' = Run(switch(State, op'.target)).errors]_vars

\* C19's case: a rollback has ended that took the current flag from one
\* record to another and rewrote the dispatch script
RolledBackAndRewrote ==
  /\ Ended("rollback")
  /\ Succeeded
  /\ CurrentIds(op.pre) \notin {{}, {op.target}}
  /\ op.preScript.exists
  /\ script # op.preScript

\* row r comes before row s: later used_at (NULL, never used, last), then
\* later created_at, then greater identity
Precedes(r, s) ==
  \/ r[3] > s[3]
  \/ r[3] = s[3] /\ r[2] > s[2]
  \/ r[3] = s[3] /\ r[2] = s[2] /\ r[1] > s[1]

\* listed holds the first ListLimit rows of the records in channel, in order
FirstOfChannel(listed, channel) ==
  /\ Len(listed) <= 10
  /\ Len(listed) = IF Cardinality(channel) < 10 THEN Cardinality(channel)
                                                ELSE 10
  /\ \A j \in 1..Len(listed) :
       /\ listed[j][1] \in channel
       /\ listed[j] = SelectRow(db, listed[j][1])
  /\ \A j, k \in 1..Len(listed) : j < k => Precedes(listed[j], listed[k])
  /\ \A i \in channel :
       (\A j \in 1..Len(listed) : listed[j][1] # i)
         => \A j \in 1..Len(listed) : Precedes(listed[j], SelectRow(db, i))

====
